---- MODULE Spec2Model ----
(***************************************************************************)
(* The triage decision engine of the ED front-door triage assistant, in    *)
(* its two deployments: src/app.py (one proxy outcome, the ICU risk) and   *)
(* src/app2.py (nine named outcomes), with the request flow around it.     *)
(*                                                                         *)
(* Units.  Probabilities and cutoffs are per-mille integers (0.50 is 500,  *)
(* the slider step 0.01 is 10).  Temperatures are tenths of a degree       *)
(* (39.5 is 395, the step 0.1 is 1).  All other vitals are the integers of *)
(* the form.                                                               *)
(*                                                                         *)
(* Text.  Strings are TLA+ strings; the non-ASCII characters of the source *)
(* are written in ASCII ("SpO2", ">=", "C", "-"), and a Thai string is     *)
(* written as its English counterpart tagged "[th] ".                      *)
(*                                                                         *)
(* Specifications.  Spec is the request flow of one session; SpecTwice     *)
(* adds a second call of the decision with the same arguments;             *)
(* SpecSessions adds the sidebar of another session; SpecLog is write_log  *)
(* called by two sessions on the one log file; SpecTokens is the building  *)
(* of the input row from the categorical fields of the form; SpecCalls is  *)
(* vital_red_flags and triage_decision called directly, once and then a    *)
(* second time with varied arguments.                                      *)
(***************************************************************************)
EXTENDS Integers, Sequences, FiniteSets, TLC

VARIABLES
    app,              \* the script serving the session: "app" or "app2"
    LANG_KEY,         \* sidebar: display language, "en" or "th"
    lvl1_cut,         \* sidebar: the four cutoff sliders
    lvl2_cut,
    lvl3_cut,
    lvl4_cut,
    apply_redflags,   \* sidebar: red-flag toggle
    rf_sbp,           \* sidebar: the five red-flag thresholds
    rf_o2,
    rf_rr_hi,
    rf_temp_hi,
    rf_gcs,
    log_predictions,  \* sidebar: logging toggle
    pc,               \* position of the current script run
    vitals,           \* the vitals of the form
    preds,            \* what predict_single returned (empty before it has)
    level,            \* the decision: level (0 before it is made), CSS class, rationale
    css,
    why,
    error,            \* the exception type reported or raised ("" when none)
    first,            \* the result of the first of two identical calls (<<>> when none)
    zone,             \* (zone_name, zone_area) of the decision (<<>> before it is made)
    actions,          \* the action list shown (<<>> before it is shown)
    logged,           \* the rows the current run appended to logs/predictions.csv
    calls,            \* how often the current request invoked the embedder and the predictor
    mine,             \* the sidebar widget values held for this session
    other,            \* the sidebar widget values held for another session
    file,             \* logs/predictions.csv: its lines (<<>> while it does not exist)
    wl,               \* per session, the position of its write_log call and its header flag
    form,             \* the categorical values of the form: gender, arrival mode, case type
    raw,              \* the tokens built from them for the input row (<<>> before)
    tpc,              \* position of the run that builds the input row
    result,           \* what the last direct call of vital_red_flags returned
    before            \* the arguments of the first of two direct calls (<<>> when none)

vars == <<app, LANG_KEY, lvl1_cut, lvl2_cut, lvl3_cut, lvl4_cut, apply_redflags,
          rf_sbp, rf_o2, rf_rr_hi, rf_temp_hi, rf_gcs, log_predictions,
          pc, vitals, preds, level, css, why, error, first,
          zone, actions, logged, calls, mine, other, file, wl, form, raw, tpc,
          result, before>>

\* The state of the request flow of one session.
flow == <<app, LANG_KEY, lvl1_cut, lvl2_cut, lvl3_cut, lvl4_cut, apply_redflags,
          rf_sbp, rf_o2, rf_rr_hi, rf_temp_hi, rf_gcs, log_predictions,
          pc, vitals, preds, level, css, why, error, first,
          zone, actions, logged, calls, mine>>

\* The state no step of the request flow of this session touches.
aside == <<other, file, wl, form, raw, tpc, result, before>>

\* The state of the direct calls of the two pure functions.
direct == <<result, before>>

sidebar == <<LANG_KEY, lvl1_cut, lvl2_cut, lvl3_cut, lvl4_cut, apply_redflags,
             rf_sbp, rf_o2, rf_rr_hi, rf_temp_hi, rf_gcs, log_predictions>>

-----------------------------------------------------------------------------
(* Program constants *)

TARGETS == <<"icu_admission", "or", "7_day_death", "admission", "lab",
             "xray", "et", "inject", "consult">>

\* Slider and number_input defaults of the sidebar.
Lvl1CutDefault == 500
Lvl2CutDefault == 300
Lvl3CutDefault == 400
Lvl4CutDefault == 250
RfSbpDefault == 90
RfO2Default == 90
RfRrHiDefault == 30
RfTempHiDefault == 395
RfGcsDefault == 8

\* Defaults of the patient form.
SbpDefault == 110
O2satDefault == 95
RrDefault == 22
TempDefault == 374
GcsEDefault == 4
GcsVDefault == 5
GcsMDefault == 6
AgeDefault == 40
DbpDefault == 70
PrDefault == 98

\* Defaults of v.get(...) in vital_red_flags.
SbpMissing == 999
O2satMissing == 100

LEVEL_MAP == [l \in 1..5 |-> <<[en |-> <<"Resuscitation", "Emergent", "Urgent",
                                         "Less-urgent", "Non-urgent">>[l],
                                th |-> "[th] " \o <<"Resuscitation", "Emergent", "Urgent",
                                                    "Less-urgent", "Non-urgent">>[l]],
                               "lvl" \o ToString(l)>>]

\* Mutant of T: the language is ignored.
T_untranslated(key) ==
    CASE key = "vital_redflags_prefix" -> "Vital red-flags: "
      [] key = "below_cutoffs" -> "All risks below cutoffs"

\* LANGS[LANG_KEY][key] of app2.py, for the two keys the decision reads.
T(key) ==
    LET en == CASE key = "vital_redflags_prefix" -> "Vital red-flags: "
                [] key = "below_cutoffs" -> "All risks below cutoffs"
    IN  IF LANG_KEY = "en" THEN en ELSE "[th] " \o en

-----------------------------------------------------------------------------
(* Python helpers *)

\* d.get(k, default)
Get(d, k, default) == IF k \in DOMAIN d THEN d[k] ELSE default

Max2(a, b) == IF a >= b THEN a ELSE b

\* max(a, b, ...)
Max(seq) ==
    LET RECURSIVE M(_)
        M(i) == IF i = Len(seq) THEN seq[i] ELSE Max2(seq[i], M(i + 1))
    IN  M(1)

\* ", ".join(seq)
Join(seq) ==
    LET RECURSIVE J(_)
        J(i) == IF i > Len(seq) THEN ""
                ELSE (IF i > 1 THEN ", " ELSE "") \o seq[i] \o J(i + 1)
    IN  J(1)

\* f"{x*100:.1f}" of a probability x given in per-mille: percent, one decimal.
Fmt1(x) == ToString(x \div 10) \o "." \o ToString(x % 10)

\* f"{x*100:.0f}" of a cutoff x given in per-mille: percent, rounded half to even.
Fmt0(x) ==
    LET q == x \div 10
        r == x % 10
    IN  ToString(IF r < 5 THEN q
                 ELSE IF r > 5 THEN q + 1
                 ELSE IF q % 2 = 0 THEN q ELSE q + 1)

\* f"{x}" of a float x given in tenths: "39.5", "40.0".
FmtFloat(x) == ToString(x \div 10) \o "." \o ToString(x % 10)

-----------------------------------------------------------------------------
(* The red-flag rule evaluator (the same text in both scripts) *)

\* Mutant of vital_red_flags: the GCS check is made first.
vital_red_flags_gcs_first(v) ==
    LET gcs_total == Get(v, "gcs_e", GcsEDefault) + Get(v, "gcs_v", GcsVDefault)
                     + Get(v, "gcs_m", GcsMDefault)
        f0 == IF gcs_total <= rf_gcs THEN <<"GCS <= " \o ToString(rf_gcs)>> ELSE <<>>
        f1 == IF Get(v, "sbp", SbpMissing) < rf_sbp
              THEN Append(f0, "SBP < " \o ToString(rf_sbp)) ELSE f0
        f2 == IF Get(v, "o2sat", O2satMissing) < rf_o2
              THEN Append(f1, "SpO2 < " \o ToString(rf_o2) \o "%") ELSE f1
        f3 == IF Get(v, "rr", 0) > rf_rr_hi
              THEN Append(f2, "RR > " \o ToString(rf_rr_hi)) ELSE f2
    IN  IF Get(v, "temp", 0) >= rf_temp_hi
        THEN Append(f3, "Temp >= " \o FmtFloat(rf_temp_hi) \o "C") ELSE f3

\* Mutant of vital_red_flags: every comparison is strict.
vital_red_flags_all_strict(v) ==
    LET f1 == IF Get(v, "sbp", SbpMissing) < rf_sbp
              THEN <<"SBP < " \o ToString(rf_sbp)>> ELSE <<>>
        f2 == IF Get(v, "o2sat", O2satMissing) < rf_o2
              THEN Append(f1, "SpO2 < " \o ToString(rf_o2) \o "%") ELSE f1
        f3 == IF Get(v, "rr", 0) > rf_rr_hi
              THEN Append(f2, "RR > " \o ToString(rf_rr_hi)) ELSE f2
        f4 == IF Get(v, "temp", 0) > rf_temp_hi
              THEN Append(f3, "Temp >= " \o FmtFloat(rf_temp_hi) \o "C") ELSE f3
        gcs_total == Get(v, "gcs_e", GcsEDefault) + Get(v, "gcs_v", GcsVDefault)
                     + Get(v, "gcs_m", GcsMDefault)
    IN  IF gcs_total < rf_gcs
        THEN Append(f4, "GCS <= " \o ToString(rf_gcs)) ELSE f4

\* Mutant of vital_red_flags: the flag texts are in the display language.
vital_red_flags_localized(v) ==
    LET lang(en) == IF LANG_KEY = "en" THEN en ELSE "[th] " \o en
        f1 == IF Get(v, "sbp", SbpMissing) < rf_sbp
              THEN <<lang("SBP < " \o ToString(rf_sbp))>> ELSE <<>>
        f2 == IF Get(v, "o2sat", O2satMissing) < rf_o2
              THEN Append(f1, lang("SpO2 < " \o ToString(rf_o2) \o "%")) ELSE f1
        f3 == IF Get(v, "rr", 0) > rf_rr_hi
              THEN Append(f2, lang("RR > " \o ToString(rf_rr_hi))) ELSE f2
        f4 == IF Get(v, "temp", 0) >= rf_temp_hi
              THEN Append(f3, lang("Temp >= " \o FmtFloat(rf_temp_hi) \o "C")) ELSE f3
        gcs_total == Get(v, "gcs_e", GcsEDefault) + Get(v, "gcs_v", GcsVDefault)
                     + Get(v, "gcs_m", GcsMDefault)
    IN  IF gcs_total <= rf_gcs
        THEN Append(f4, lang("GCS <= " \o ToString(rf_gcs))) ELSE f4

vital_red_flags(v) ==
    LET f1 == IF Get(v, "sbp", SbpMissing) < rf_sbp
              THEN <<"SBP < " \o ToString(rf_sbp)>> ELSE <<>>
        f2 == IF Get(v, "o2sat", O2satMissing) < rf_o2
              THEN Append(f1, "SpO2 < " \o ToString(rf_o2) \o "%") ELSE f1
        f3 == IF Get(v, "rr", 0) > rf_rr_hi
              THEN Append(f2, "RR > " \o ToString(rf_rr_hi)) ELSE f2
        f4 == IF Get(v, "temp", 0) >= rf_temp_hi
              THEN Append(f3, "Temp >= " \o FmtFloat(rf_temp_hi) \o "C") ELSE f3
        gcs_total == Get(v, "gcs_e", GcsEDefault) + Get(v, "gcs_v", GcsVDefault)
                     + Get(v, "gcs_m", GcsMDefault)
    IN  IF gcs_total <= rf_gcs
        THEN Append(f4, "GCS <= " \o ToString(rf_gcs)) ELSE f4

-----------------------------------------------------------------------------
(* The decision engine of app2.py: nine outcomes in three buckets *)

\* Mutant of critical: the bucket is aggregated by its mean.
critical_mean(p) ==
    (Get(p, "7_day_death", 0) + Get(p, "icu_admission", 0)
        + Get(p, "et", 0) + Get(p, "or", 0)) \div 4

critical(p) == Max(<<Get(p, "7_day_death", 0), Get(p, "icu_admission", 0),
                     Get(p, "et", 0), Get(p, "or", 0)>>)

urgent(p) == Max(<<Get(p, "admission", 0), Get(p, "inject", 0), Get(p, "consult", 0)>>)

\* Mutant of minor: a name that is no key counts as probability 1.
minor_missing_certain(p) == Max(<<Get(p, "lab", 1000), Get(p, "xray", 1000)>>)

minor(p) == Max(<<Get(p, "lab", 0), Get(p, "xray", 0)>>)

\* One appended rationale entry: prefix + f"{value*100:.1f}% >= Lk {cut*100:.0f}%"
Compared(en, value, k, cut) ==
    (IF LANG_KEY = "en" THEN en ELSE "[th] " \o en)
        \o Fmt1(value) \o "% >= L" \o ToString(k) \o " " \o Fmt0(cut) \o "%"

\* Mutant of rationale0: the list of the previous call is reused.
rationale_kept == why

\* The rationale list a call starts from: rationale = []
rationale0 == <<>>

\* Mutant of Return1Flags: the flag list itself is returned as the rationale.
Return1Flags_verbatim(flags) == <<1, LEVEL_MAP[1][2], rationale0 \o flags>>

\* The five returns of triage_decision in app2.py.
Return1Flags(flags) ==
    <<1, LEVEL_MAP[1][2], Append(rationale0, T("vital_redflags_prefix") \o Join(flags))>>

Return1(p) ==
    <<1, LEVEL_MAP[1][2],
      Append(rationale0, Compared("Critical risk ", critical(p), 1, lvl1_cut))>>

\* Mutant of Return2: the localized level name is returned in place of the
\* CSS class.
Return2_level_name(p) ==
    <<2, LEVEL_MAP[2][1][LANG_KEY],
      Append(rationale0, Compared("Critical risk ", critical(p), 2, lvl2_cut))>>

Return2(p) ==
    <<2, LEVEL_MAP[2][2],
      Append(rationale0, Compared("Critical risk ", critical(p), 2, lvl2_cut))>>

Return3(p) ==
    <<3, LEVEL_MAP[3][2],
      Append(rationale0, Compared("Urgent resource risk ", urgent(p), 3, lvl3_cut))>>

Return4(p) ==
    <<4, LEVEL_MAP[4][2],
      Append(rationale0, Compared("Minor resource risk ", minor(p), 4, lvl4_cut))>>

Return5 == <<5, LEVEL_MAP[5][2], Append(rationale0, T("below_cutoffs"))>>

\* Mutant of triage_decision: the red flags are looked at after the critical risk.
triage_decision_flags_late(p, v) ==
    LET flags == vital_red_flags(v)
    IN  IF critical(p) >= lvl1_cut THEN Return1(p)
        ELSE IF critical(p) >= lvl2_cut THEN Return2(p)
        ELSE IF apply_redflags /\ flags # <<>> THEN Return1Flags(flags)
        ELSE IF urgent(p) >= lvl3_cut THEN Return3(p)
        ELSE IF minor(p) >= lvl4_cut THEN Return4(p)
        ELSE Return5

\* Mutant of triage_decision: the level-2 cutoff is tested before the level-1 cutoff.
triage_decision_l2_first(p, v) ==
    LET flags == vital_red_flags(v)
    IN  IF apply_redflags /\ flags # <<>> THEN Return1Flags(flags)
        ELSE IF critical(p) >= lvl2_cut THEN Return2(p)
        ELSE IF critical(p) >= lvl1_cut THEN Return1(p)
        ELSE IF urgent(p) >= lvl3_cut THEN Return3(p)
        ELSE IF minor(p) >= lvl4_cut THEN Return4(p)
        ELSE Return5

\* Mutant of triage_decision: the minor bucket is tested before the urgent bucket.
triage_decision_minor_first(p, v) ==
    LET flags == vital_red_flags(v)
    IN  IF apply_redflags /\ flags # <<>> THEN Return1Flags(flags)
        ELSE IF critical(p) >= lvl1_cut THEN Return1(p)
        ELSE IF critical(p) >= lvl2_cut THEN Return2(p)
        ELSE IF minor(p) >= lvl4_cut THEN Return4(p)
        ELSE IF urgent(p) >= lvl3_cut THEN Return3(p)
        ELSE Return5

\* Mutant of triage_decision: the minor bucket must exceed its cutoff.
triage_decision_minor_strict(p, v) ==
    LET flags == vital_red_flags(v)
    IN  IF apply_redflags /\ flags # <<>> THEN Return1Flags(flags)
        ELSE IF critical(p) >= lvl1_cut THEN Return1(p)
        ELSE IF critical(p) >= lvl2_cut THEN Return2(p)
        ELSE IF urgent(p) >= lvl3_cut THEN Return3(p)
        ELSE IF minor(p) > lvl4_cut THEN Return4(p)
        ELSE Return5

\* Mutant of triage_decision: the critical tests are written as ranges,
\* level 1 above cutoff 1 and level 2 from cutoff 2 up to but not including cutoff 1.
triage_decision_ranges(p, v) ==
    LET flags == vital_red_flags(v)
    IN  IF apply_redflags /\ flags # <<>> THEN Return1Flags(flags)
        ELSE IF critical(p) > lvl1_cut THEN Return1(p)
        ELSE IF lvl2_cut <= critical(p) /\ critical(p) < lvl1_cut THEN Return2(p)
        ELSE IF urgent(p) >= lvl3_cut THEN Return3(p)
        ELSE IF minor(p) >= lvl4_cut THEN Return4(p)
        ELSE Return5

\* Mutant of triage_decision: the last branch returns without a rationale entry.
triage_decision_silent(p, v) ==
    LET flags == vital_red_flags(v)
    IN  IF apply_redflags /\ flags # <<>> THEN Return1Flags(flags)
        ELSE IF critical(p) >= lvl1_cut THEN Return1(p)
        ELSE IF critical(p) >= lvl2_cut THEN Return2(p)
        ELSE IF urgent(p) >= lvl3_cut THEN Return3(p)
        ELSE IF minor(p) >= lvl4_cut THEN Return4(p)
        ELSE <<5, LEVEL_MAP[5][2], rationale0>>

\* Mutant of triage_decision: the levels are counted from 0.
triage_decision_from0(p, v) ==
    LET flags == vital_red_flags(v)
    IN  IF apply_redflags /\ flags # <<>> THEN <<0, LEVEL_MAP[1][2], Return1Flags(flags)[3]>>
        ELSE IF critical(p) >= lvl1_cut THEN <<0, LEVEL_MAP[1][2], Return1(p)[3]>>
        ELSE IF critical(p) >= lvl2_cut THEN <<1, LEVEL_MAP[2][2], Return2(p)[3]>>
        ELSE IF urgent(p) >= lvl3_cut THEN <<2, LEVEL_MAP[3][2], Return3(p)[3]>>
        ELSE IF minor(p) >= lvl4_cut THEN <<3, LEVEL_MAP[4][2], Return4(p)[3]>>
        ELSE <<4, LEVEL_MAP[5][2], Return5[3]>>

\* Mutant of triage_decision: the bucket with the larger value is tested first.
triage_decision_by_magnitude(p, v) ==
    LET flags == vital_red_flags(v)
    IN  IF apply_redflags /\ flags # <<>> THEN Return1Flags(flags)
        ELSE IF urgent(p) > critical(p) /\ urgent(p) >= lvl3_cut THEN Return3(p)
        ELSE IF critical(p) >= lvl1_cut THEN Return1(p)
        ELSE IF critical(p) >= lvl2_cut THEN Return2(p)
        ELSE IF urgent(p) >= lvl3_cut THEN Return3(p)
        ELSE IF minor(p) >= lvl4_cut THEN Return4(p)
        ELSE Return5

triage_decision(p, v) ==
    LET flags == vital_red_flags(v)
    IN  IF apply_redflags /\ flags # <<>> THEN Return1Flags(flags)
        ELSE IF critical(p) >= lvl1_cut THEN Return1(p)
        ELSE IF critical(p) >= lvl2_cut THEN Return2(p)
        ELSE IF urgent(p) >= lvl3_cut THEN Return3(p)
        ELSE IF minor(p) >= lvl4_cut THEN Return4(p)
        ELSE Return5

-----------------------------------------------------------------------------
(* The decision engine of app.py: the ICU probability against all four cutoffs *)

\* Mutant of triage_decision_icu: the ICU risk stands for criticality only,
\* and is not reused for the urgent and the minor step.
triage_decision_icu_critical_only(icu_prob, v) ==
    LET flags == vital_red_flags(v)
        lang(en) == IF LANG_KEY = "en" THEN en ELSE "[th] " \o en
    IN  IF apply_redflags /\ flags # <<>>
        THEN <<1, LEVEL_MAP[1][2],
               Append(rationale0, lang("Vital red-flags: ") \o Join(flags))>>
        ELSE IF icu_prob >= lvl1_cut
        THEN <<1, LEVEL_MAP[1][2],
               Append(rationale0, Compared("ICU risk ", icu_prob, 1, lvl1_cut))>>
        ELSE IF icu_prob >= lvl2_cut
        THEN <<2, LEVEL_MAP[2][2],
               Append(rationale0, Compared("ICU risk ", icu_prob, 2, lvl2_cut))>>
        ELSE <<5, LEVEL_MAP[5][2], Append(rationale0, lang("All risks below cutoffs"))>>

\* Mutant of triage_decision_icu: level 2 is the band from cutoff 2 upwards,
\* tested before cutoff 1.
triage_decision_icu_l2_first(icu_prob, v) ==
    LET flags == vital_red_flags(v)
        lang(en) == IF LANG_KEY = "en" THEN en ELSE "[th] " \o en
    IN  IF apply_redflags /\ flags # <<>>
        THEN <<1, LEVEL_MAP[1][2],
               Append(rationale0, lang("Vital red-flags: ") \o Join(flags))>>
        ELSE IF icu_prob >= lvl2_cut
        THEN <<2, LEVEL_MAP[2][2],
               Append(rationale0, Compared("ICU risk ", icu_prob, 2, lvl2_cut))>>
        ELSE IF icu_prob >= lvl1_cut
        THEN <<1, LEVEL_MAP[1][2],
               Append(rationale0, Compared("ICU risk ", icu_prob, 1, lvl1_cut))>>
        ELSE IF icu_prob >= lvl3_cut
        THEN <<3, LEVEL_MAP[3][2],
               Append(rationale0, Compared("Urgent resource risk ", icu_prob, 3, lvl3_cut))>>
        ELSE IF icu_prob >= lvl4_cut
        THEN <<4, LEVEL_MAP[4][2],
               Append(rationale0, Compared("Minor resource risk ", icu_prob, 4, lvl4_cut))>>
        ELSE <<5, LEVEL_MAP[5][2], Append(rationale0, lang("All risks below cutoffs"))>>

\* Mutant of triage_decision_icu: the urgent cutoff is tested before cutoff 2.
triage_decision_icu_l3_first(icu_prob, v) ==
    LET flags == vital_red_flags(v)
        lang(en) == IF LANG_KEY = "en" THEN en ELSE "[th] " \o en
    IN  IF apply_redflags /\ flags # <<>>
        THEN <<1, LEVEL_MAP[1][2],
               Append(rationale0, lang("Vital red-flags: ") \o Join(flags))>>
        ELSE IF icu_prob >= lvl1_cut
        THEN <<1, LEVEL_MAP[1][2],
               Append(rationale0, Compared("ICU risk ", icu_prob, 1, lvl1_cut))>>
        ELSE IF icu_prob >= lvl3_cut
        THEN <<3, LEVEL_MAP[3][2],
               Append(rationale0, Compared("Urgent resource risk ", icu_prob, 3, lvl3_cut))>>
        ELSE IF icu_prob >= lvl2_cut
        THEN <<2, LEVEL_MAP[2][2],
               Append(rationale0, Compared("ICU risk ", icu_prob, 2, lvl2_cut))>>
        ELSE IF icu_prob >= lvl4_cut
        THEN <<4, LEVEL_MAP[4][2],
               Append(rationale0, Compared("Minor resource risk ", icu_prob, 4, lvl4_cut))>>
        ELSE <<5, LEVEL_MAP[5][2], Append(rationale0, lang("All risks below cutoffs"))>>

triage_decision_icu(icu_prob, v) ==
    LET flags == vital_red_flags(v)
        lang(en) == IF LANG_KEY = "en" THEN en ELSE "[th] " \o en
    IN  IF apply_redflags /\ flags # <<>>
        THEN <<1, LEVEL_MAP[1][2],
               Append(rationale0, lang("Vital red-flags: ") \o Join(flags))>>
        ELSE IF icu_prob >= lvl1_cut
        THEN <<1, LEVEL_MAP[1][2],
               Append(rationale0, Compared("ICU risk ", icu_prob, 1, lvl1_cut))>>
        ELSE IF icu_prob >= lvl2_cut
        THEN <<2, LEVEL_MAP[2][2],
               Append(rationale0, Compared("ICU risk ", icu_prob, 2, lvl2_cut))>>
        ELSE IF icu_prob >= lvl3_cut
        THEN <<3, LEVEL_MAP[3][2],
               Append(rationale0, Compared("Urgent resource risk ", icu_prob, 3, lvl3_cut))>>
        ELSE IF icu_prob >= lvl4_cut
        THEN <<4, LEVEL_MAP[4][2],
               Append(rationale0, Compared("Minor resource risk ", icu_prob, 4, lvl4_cut))>>
        ELSE <<5, LEVEL_MAP[5][2], Append(rationale0, lang("All risks below cutoffs"))>>

-----------------------------------------------------------------------------
(* The zone and action resolver *)

ZONE_MAP ==
    [l \in 1..5 |->
        LET name == <<"Blue zone", "Red zone", "Yellow zone", "Green zone", "White zone">>[l]
            area == <<"Resuscitation bay", "High-acuity / monitored", "Urgent care",
                      "Minor care", "Fast-track / clinic">>[l]
        IN  <<[en |-> name, th |-> "[th] " \o name], [en |-> area, th |-> "[th] " \o area]>>]

zone_for_level(l) == <<ZONE_MAP[l][1][LANG_KEY], ZONE_MAP[l][2][LANG_KEY]>>

\* The English action lists: LANGS['en']['actions_l1'] .. ['actions_l5'] of
\* app2.py, and the same texts in the if-chain of app.py.
ActionsEn ==
    <<<<"Assign to **Blue zone** (Resuscitation) immediately",
        "Activate resuscitation team; continuous monitoring (ECG, SpO2, BP)",
        "High-flow O2; prepare BVM/advanced airway",
        "2 large-bore IV/IO; fluids per protocol">>,
      <<"Assign to **Red zone** (High-acuity)",
        "Rapid assessment; monitoring as indicated",
        "IV access; protocol-based treatment">>,
      <<"Assign to **Yellow zone** (Urgent)",
        "Timely assessment; monitoring as indicated",
        "IV/symptomatic care as needed">>,
      <<"Assign to **Green zone** (Minor)",
        "Symptomatic relief; basic tests per protocol">>,
      <<"Assign to **White zone** (Fast-track/clinic)",
        "Safety-net instructions and follow-up advice">>>>

\* The list in the display language; the Thai lists have the lengths of the
\* English ones.
Localized(list) ==
    IF LANG_KEY = "en" THEN list ELSE [i \in 1..Len(list) |-> "[th] " \o list[i]]

\* Mutant of actions_for_level: the table has no entry 'actions_l5'.
actions_for_level_l5_missing(l) ==
    IF l \in 1..4 THEN Localized(ActionsEn[l]) ELSE <<>>

\* app2.py: LANGS[LANG_KEY][f'actions_l{level}'], [] on KeyError.
actions_for_level(l) ==
    IF l \in 1..Len(ActionsEn) THEN Localized(ActionsEn[l]) ELSE <<>>

\* app.py: an if-chain over levels 1 to 4 that ends in the list of level 5.
actions_for_level_icu(l) ==
    IF l = 1 THEN Localized(ActionsEn[1])
    ELSE IF l = 2 THEN Localized(ActionsEn[2])
    ELSE IF l = 3 THEN Localized(ActionsEn[3])
    ELSE IF l = 4 THEN Localized(ActionsEn[4])
    ELSE Localized(ActionsEn[5])

-----------------------------------------------------------------------------
(* The log *)

\* st.session_state['session_id'], a uuid4 drawn once per session.
session_id == "uuid-1"

\* The row of the form as a dict: the vitals, and the other fields at the
\* defaults of the form (the gender token of the default option, arrival by
\* EMS, non-trauma, no chief complaint).
single_input ==
    vitals @@ [age |-> AgeDefault, dbp |-> DbpDefault, pr |-> PrDefault,
               sex |-> "[th] M", how_come_er |-> "EMS", t_n |-> "N", cc |-> ""]

\* {f"pred_{k}": v for k, v in preds.items()}
PredColumns(p) ==
    [c \in {"pred_" \o k : k \in DOMAIN p} |->
        p[CHOOSE k \in DOMAIN p : "pred_" \o k = c]]

\* The row write_log builds; the timestamp is the clock's.
Row(single, p, l) ==
    [timestamp |-> "now", session |-> session_id] @@ single @@ PredColumns(p)
        @@ [triage_level |-> l]

\* Two sessions of the one server process, by their session identifiers.
Sessions == {"uuid-1", "uuid-2"}

\* Mutant of write_log: the guard is inverted.
write_log_inverted(single, p, l) ==
    IF log_predictions THEN logged ELSE Append(logged, Row(single, p, l))

\* write_log as the rows appended by the run after it returns.
write_log(single, p, l) ==
    IF ~log_predictions THEN logged ELSE Append(logged, Row(single, p, l))

-----------------------------------------------------------------------------
(* Widget ranges *)

\* st.slider(min, max, default, step) of the cutoffs.
Lvl1CutMin == 100
Lvl1CutMax == 900
CutMin == 50
CutMax == 800

\* st.number_input(min_value, max_value) of the red-flag thresholds.
RfSbpMin == 60
RfSbpMax == 120
RfO2Min == 70
RfO2Max == 100
RfRrHiMin == 16
RfRrHiMax == 60
RfTempHiMin == 370
RfTempHiMax == 420
RfGcsMin == 3
RfGcsMax == 15

\* st.number_input(min_value, max_value) of the vitals of the form.
SbpMin == 40
SbpMax == 300
TempMin == 300
TempMax == 430
RrMin == 6
RrMax == 80
O2satMin == 50
O2satMax == 100

GcsTriples == {<<e, v, m>> : e \in 1..4, v \in 1..5, m \in 1..6}

-----------------------------------------------------------------------------
(* The inputs explored.  A script run reads every widget; the runs explored *)
(* are three sweeps around the defaults.                                    *)

\* Number of equal steps of the probability grid over [0, 1].
ProbSteps == 2

\* The probabilities of the specification's scenarios B and C.
ScenarioProbs == {350, 450, 550}

\* Every cutoff slider is moved over the four default positions, which gives
\* every relative order of the four cutoffs.
CutGrid == {Lvl1CutDefault, Lvl2CutDefault, Lvl3CutDefault, Lvl4CutDefault}

Lvl1Cuts == {c \in CutGrid : Lvl1CutMin <= c /\ c <= Lvl1CutMax}

Cuts == {c \in CutGrid : CutMin <= c /\ c <= CutMax}

\* Probabilities: the grid, the scenarios, and the cutoff positions themselves
\* (where >= and > differ).
ProbVals == {(k * 1000) \div ProbSteps : k \in 0..ProbSteps} \cup ScenarioProbs \cup CutGrid

\* The value the other outcomes have when one outcome is raised above them.
BaseProbs == {0, 350}

DefaultSidebar ==
    [LANG_KEY |-> "en",
     lvl1_cut |-> Lvl1CutDefault, lvl2_cut |-> Lvl2CutDefault,
     lvl3_cut |-> Lvl3CutDefault, lvl4_cut |-> Lvl4CutDefault,
     apply_redflags |-> TRUE,
     rf_sbp |-> RfSbpDefault, rf_o2 |-> RfO2Default, rf_rr_hi |-> RfRrHiDefault,
     rf_temp_hi |-> RfTempHiDefault, rf_gcs |-> RfGcsDefault,
     log_predictions |-> FALSE]

NormalVitals ==
    [sbp |-> SbpDefault, o2sat |-> O2satDefault, rr |-> RrDefault, temp |-> TempDefault,
     gcs_e |-> GcsEDefault, gcs_v |-> GcsVDefault, gcs_m |-> GcsMDefault]

\* Scenario A of the specification.
ScenarioAVitals ==
    [sbp |-> 70, o2sat |-> 95, rr |-> 20, temp |-> 370, gcs_e |-> 4, gcs_v |-> 5, gcs_m |-> 6]

\* A fixed triple of sub-scores with the given total.
GcsOf(total) == CHOOSE g \in GcsTriples : g[1] + g[2] + g[3] = total

WithGcs(v, total) ==
    [v EXCEPT !.gcs_e = GcsOf(total)[1], !.gcs_v = GcsOf(total)[2], !.gcs_m = GcsOf(total)[3]]

\* Every combination of normal and clearly abnormal vitals.
AbnormalVitals ==
    {WithGcs([NormalVitals EXCEPT !.sbp = s, !.o2sat = o, !.rr = r, !.temp = t], g) :
        s \in {SbpDefault, 70}, o \in {O2satDefault, 85}, r \in {RrDefault, 35},
        t \in {TempDefault, 400}, g \in {15, 8}}

\* One vital just below, at and just above its threshold, the others normal.
BoundaryVitals(side) ==
    {[NormalVitals EXCEPT !.sbp = x] :
        x \in {side.rf_sbp + d : d \in {-1, 0, 1}} \cap SbpMin..SbpMax}
    \cup {[NormalVitals EXCEPT !.o2sat = x] :
        x \in {side.rf_o2 + d : d \in {-1, 0, 1}} \cap O2satMin..O2satMax}
    \cup {[NormalVitals EXCEPT !.rr = x] :
        x \in {side.rf_rr_hi + d : d \in {-1, 0, 1}} \cap RrMin..RrMax}
    \cup {[NormalVitals EXCEPT !.temp = x] :
        x \in {side.rf_temp_hi + d : d \in {-1, 0, 1}} \cap TempMin..TempMax}
    \cup {WithGcs(NormalVitals, x) :
        x \in {side.rf_gcs + d : d \in {-1, 0, 1}} \cap 3..15}

\* The thresholds at their defaults, and each one alone at an end of its range.
ThresholdSides ==
    {DefaultSidebar}
    \cup {[DefaultSidebar EXCEPT !.rf_sbp = x] : x \in {RfSbpMin, RfSbpMax}}
    \cup {[DefaultSidebar EXCEPT !.rf_o2 = x] : x \in {RfO2Min, RfO2Max}}
    \cup {[DefaultSidebar EXCEPT !.rf_rr_hi = x] : x \in {RfRrHiMin, RfRrHiMax}}
    \cup {[DefaultSidebar EXCEPT !.rf_temp_hi = x] : x \in {RfTempHiMin, RfTempHiMax}}
    \cup {[DefaultSidebar EXCEPT !.rf_gcs = x] : x \in {RfGcsMin, RfGcsMax}}

\* Sweep 1: every cutoff configuration, normal vitals, red-flag mode on and off.
CutoffSweep ==
    {[side |-> [DefaultSidebar EXCEPT !.lvl1_cut = c1, !.lvl2_cut = c2,
                                      !.lvl3_cut = c3, !.lvl4_cut = c4,
                                      !.apply_redflags = a],
      vitals |-> NormalVitals] :
        c1 \in Lvl1Cuts, c2 \in Cuts, c3 \in Cuts, c4 \in Cuts, a \in BOOLEAN}

\* Sweep 2: the red-flag thresholds and the vitals, red-flag mode on and off.
FlagSweep ==
    UNION {{[side |-> [s EXCEPT !.apply_redflags = a], vitals |-> v] :
                v \in AbnormalVitals \cup BoundaryVitals(s), a \in BOOLEAN} :
           s \in ThresholdSides}

\* Sweep 3: the toggles and the language.
UiSweep ==
    {[side |-> [DefaultSidebar EXCEPT !.apply_redflags = a, !.LANG_KEY = l,
                                      !.log_predictions = g],
      vitals |-> v] :
        a \in BOOLEAN, l \in {"en", "th"}, g \in BOOLEAN,
        v \in {NormalVitals, ScenarioAVitals}}

RunInputs == CutoffSweep \cup FlagSweep \cup UiSweep

Targets == {TARGETS[i] : i \in 1..Len(TARGETS)}

\* dict(zip(TARGETS, flat)) for a model output of n values, all equal to b.
Flat(n, b) == [t \in {TARGETS[i] : i \in 1..n} |-> b]

\* dict(zip(TARGETS, flat)) for nine values: outcome o at v, the others at b.
Spiked(b, o, v) == [t \in Targets |-> IF t = o THEN v ELSE b]

\* Scenario B of the specification: critical 0.55.
ScenarioBPreds == Spiked(0, "icu_admission", 550)

\* Scenario C of the specification: critical 0.35, urgent 0.45.
ScenarioCPreds == Spiked(350, "admission", 450)

RichPreds ==
    UNION {{Spiked(b, o, v) : o \in Targets, v \in {x \in ProbVals : x > b}} :
           b \in BaseProbs}
    \cup {Flat(n, b) : n \in 0..Len(TARGETS), b \in BaseProbs \cup {1000}}

FewPreds ==
    {Flat(9, 0), Flat(9, 1000), ScenarioBPreds, ScenarioCPreds,
     Spiked(0, "admission", 450), Spiked(0, "lab", 350), Flat(3, 350)}

\* The sidebar as the current run read it.
Side ==
    [LANG_KEY |-> LANG_KEY,
     lvl1_cut |-> lvl1_cut, lvl2_cut |-> lvl2_cut, lvl3_cut |-> lvl3_cut, lvl4_cut |-> lvl4_cut,
     apply_redflags |-> apply_redflags,
     rf_sbp |-> rf_sbp, rf_o2 |-> rf_o2, rf_rr_hi |-> rf_rr_hi,
     rf_temp_hi |-> rf_temp_hi, rf_gcs |-> rf_gcs,
     log_predictions |-> log_predictions]

\* The outputs of the predictor explored for the current run: all of RichPreds
\* in sweep 1 with red-flag mode on, FewPreds elsewhere.
PredictorOutputs ==
    IF app = "app"
    THEN {[k \in {"icu"} |-> x] : x \in ProbVals}
    ELSE IF apply_redflags /\ [side |-> Side, vitals |-> vitals] \in CutoffSweep
    THEN RichPreds
    ELSE FewPreds

-----------------------------------------------------------------------------
(* The request flow: one script run per user interaction *)

ReadWidgets(in) ==
    /\ mine' = in.side
    /\ LANG_KEY' = in.side.LANG_KEY
    /\ lvl1_cut' = in.side.lvl1_cut
    /\ lvl2_cut' = in.side.lvl2_cut
    /\ lvl3_cut' = in.side.lvl3_cut
    /\ lvl4_cut' = in.side.lvl4_cut
    /\ apply_redflags' = in.side.apply_redflags
    /\ rf_sbp' = in.side.rf_sbp
    /\ rf_o2' = in.side.rf_o2
    /\ rf_rr_hi' = in.side.rf_rr_hi
    /\ rf_temp_hi' = in.side.rf_temp_hi
    /\ rf_gcs' = in.side.rf_gcs
    /\ log_predictions' = in.side.log_predictions
    /\ vitals' = in.vitals

NoCalls == [embedder |-> 0, predictor |-> 0]

\* A new run starts with an empty right-hand pane.
ClearPane ==
    /\ preds' = <<>>
    /\ level' = 0
    /\ css' = ""
    /\ why' = <<>>
    /\ error' = ""
    /\ first' = <<>>
    /\ zone' = <<>>
    /\ actions' = <<>>
    /\ logged' = <<>>
    /\ calls' = NoCalls

\* The form's default options: the gender at its default index, arrival by
\* EMS, non-trauma.
FormDefault ==
    [gender |-> IF app = "app" THEN "M" ELSE "Male", arrival |-> "EMS",
     case_type |-> "Non-trauma"]

Init ==
    /\ app \in {"app", "app2"}
    /\ LANG_KEY = DefaultSidebar.LANG_KEY
    /\ lvl1_cut = Lvl1CutDefault
    /\ lvl2_cut = Lvl2CutDefault
    /\ lvl3_cut = Lvl3CutDefault
    /\ lvl4_cut = Lvl4CutDefault
    /\ apply_redflags = DefaultSidebar.apply_redflags
    /\ rf_sbp = RfSbpDefault
    /\ rf_o2 = RfO2Default
    /\ rf_rr_hi = RfRrHiDefault
    /\ rf_temp_hi = RfTempHiDefault
    /\ rf_gcs = RfGcsDefault
    /\ log_predictions = DefaultSidebar.log_predictions
    /\ pc = "idle"
    /\ vitals = NormalVitals
    /\ preds = <<>>
    /\ level = 0
    /\ css = ""
    /\ why = <<>>
    /\ error = ""
    /\ first = <<>>
    /\ zone = <<>>
    /\ actions = <<>>
    /\ logged = <<>>
    /\ calls = NoCalls
    /\ mine = DefaultSidebar
    /\ other = DefaultSidebar
    /\ file = <<>>
    /\ wl = [s \in Sessions |-> [pc |-> "idle", header |-> FALSE, n |-> 0]]
    /\ form = FormDefault
    /\ raw = <<>>
    /\ tpc = "idle"
    /\ result = <<>>
    /\ before = <<>>

\* Any interaction reruns the script from the top: the output of the previous
\* run is discarded, the widgets keep their values.
Rerun ==
    /\ pc # "idle"
    /\ ClearPane
    /\ pc' = "idle"
    /\ UNCHANGED <<app, sidebar, vitals, mine, aside>>

\* The user sets the widgets (the sidebar, the fields of the form); the run has
\* submitted = False and renders no recommendation.
Interact(in) ==
    /\ pc = "idle"
    /\ ReadWidgets(in)
    /\ pc' = "idle"
    /\ UNCHANGED <<app, preds, level, css, why, error, first, zone, actions, logged,
                   calls, aside>>

\* The form is submitted: the run has submitted = True, reads the widgets as
\* they stand and builds the input row.
Submit ==
    /\ pc = "idle"
    /\ pc' = "submitted"
    /\ calls' = NoCalls
    /\ UNCHANGED <<app, sidebar, vitals, preds, level, css, why, error, first,
                   zone, actions, logged, mine, aside>>

\* The invocations made once predict_single (or embed_text) has made the call
\* `last`: app2.py transforms, embeds, then predicts; app.py embeds in
\* embed_text and predicts in predict_single.
Invoked(last) ==
    [embedder |-> calls.embedder + (IF last \in {"embedder", "predict"} THEN 1 ELSE 0),
     predictor |-> calls.predictor + (IF last \in {"predict", "predict_proba"} THEN 1 ELSE 0)]

\* app.py embeds the chief complaint while building the row, outside the try.
EmbedText ==
    /\ app = "app"
    /\ pc = "submitted"
    /\ calls' = Invoked("embedder")
    /\ \/ pc' = "embedded" /\ error' = error
       \/ pc' = "crashed" /\ error' = "embedder"
    /\ UNCHANGED <<app, sidebar, vitals, preds, level, css, why, first,
                   zone, actions, logged, mine, aside>>

ReadyToPredict == pc = (IF app = "app" THEN "embedded" ELSE "submitted")

\* The external calls predict_single makes, each of which can raise.
PredictCalls == IF app = "app" THEN {"predict_proba"} ELSE {"transform", "embedder", "predict"}

\* predict_single returns.
PredictOk(out) ==
    /\ ReadyToPredict
    /\ preds' = out
    /\ pc' = "predicted"
    /\ calls' = Invoked(IF app = "app" THEN "predict_proba" ELSE "predict")
    /\ UNCHANGED <<app, sidebar, vitals, level, css, why, error, first,
                   zone, actions, logged, mine, aside>>

\* Mutant of PredictFail: the failure is swallowed and a zero vector stands in
\* for the probabilities.
PredictFail_zero_vector(call) ==
    /\ ReadyToPredict
    /\ preds' = [t \in (IF app = "app" THEN {"icu"} ELSE Targets) |-> 0]
    /\ pc' = "predicted"
    /\ error' = call
    /\ calls' = Invoked(call)
    /\ UNCHANGED <<app, sidebar, vitals, level, css, why, first,
                   zone, actions, logged, mine, aside>>

\* Mutant of PredictFail: the failed call is made again.
PredictFail_retried(call) ==
    /\ ReadyToPredict
    /\ call # "transform"
    /\ calls.embedder + calls.predictor < 4
    /\ pc' = pc
    /\ calls' = Invoked(call)
    /\ UNCHANGED <<app, sidebar, vitals, preds, level, css, why, error, first,
                   zone, actions, logged, mine, aside>>

\* predict_single raises; the except clause of the run reports it.
PredictFail(call) ==
    /\ ReadyToPredict
    /\ pc' = "failed"
    /\ error' = call
    /\ calls' = Invoked(call)
    /\ UNCHANGED <<app, sidebar, vitals, preds, level, css, why, first,
                   zone, actions, logged, mine, aside>>

\* The decision the script calls for.
Decision ==
    IF app = "app" THEN triage_decision_icu(preds["icu"], vitals)
    ELSE triage_decision(preds, vitals)

\* The action list the script shows for a level.
Actions(l) == IF app = "app" THEN actions_for_level_icu(l) ELSE actions_for_level(l)

\* triage_decision and the rendering of its result: LEVEL_MAP[level] and
\* zone_for_level(level) raise KeyError for a level that is no key, then the
\* badges and the action list are shown.  app2.py then shows preds[t] for
\* every t of TARGETS, which raises KeyError for a missing name.
Decide ==
    /\ pc = "predicted"
    /\ level' = Decision[1]
    /\ css' = Decision[2]
    /\ why' = Decision[3]
    /\ IF Decision[1] \notin DOMAIN LEVEL_MAP \/ Decision[1] \notin DOMAIN ZONE_MAP
       THEN /\ pc' = "failed"
            /\ error' = "KeyError"
            /\ UNCHANGED <<zone, actions>>
       ELSE /\ zone' = zone_for_level(Decision[1])
            /\ actions' = Actions(Decision[1])
            /\ IF app = "app2" /\ DOMAIN preds # Targets
               THEN pc' = "failed" /\ error' = "KeyError"
               ELSE pc' = "presented" /\ error' = error
    /\ UNCHANGED <<app, sidebar, vitals, preds, first, logged, calls, mine, aside>>

\* if log_predictions: write_log(...), the last statement of the try; the
\* append can raise (no directory, no permission, a full disk).
WriteLog ==
    /\ pc = "presented"
    /\ \/ /\ pc' = "done"
          /\ error' = error
          /\ logged' = IF log_predictions THEN write_log(single_input, preds, level)
                       ELSE logged
       \/ /\ log_predictions
          /\ pc' = "failed"
          /\ error' = "write_log"
          /\ logged' = logged
    /\ UNCHANGED <<app, sidebar, vitals, preds, level, css, why, first,
                   zone, actions, calls, mine, aside>>

Next ==
    \/ Rerun
    \/ \E in \in RunInputs : Interact(in)
    \/ Submit
    \/ EmbedText
    \/ \E out \in PredictorOutputs : PredictOk(out)
    \/ \E call \in PredictCalls : PredictFail(call)
    \/ Decide
    \/ WriteLog

Spec == Init /\ [][Next]_vars

\* A second call of the decision with the arguments of the first.
Redecide ==
    /\ pc \in {"presented", "done"}
    /\ first = <<>>
    /\ first' = <<level, css, why>>
    /\ pc' = "predicted"
    /\ UNCHANGED <<app, sidebar, vitals, preds, level, css, why, error,
                   zone, actions, logged, calls, mine, aside>>

NextTwice == Next \/ Redecide

SpecTwice == Init /\ [][NextTwice]_vars

-----------------------------------------------------------------------------
(* Vocabulary of the properties *)

\* triage_decision has returned in the current run.
Decided ==
    \/ pc \in {"presented", "done"}
    \/ pc = "failed" /\ error \in {"KeyError", "write_log"}

\* No red flag applies: the mode is off, or it is on and no check triggers.
NoRedFlag == ~apply_redflags \/ vital_red_flags(vitals) = <<>>

\* The value the critical tests compare: the bucket maximum, or the ICU risk.
CriticalValue == IF app = "app" THEN preds["icu"] ELSE critical(preds)

\* sub occurs in the string s.
Contains(s, sub) ==
    \E i \in 1..(Len(s) - Len(sub) + 1) : SubSeq(s, i, i + Len(sub) - 1) = sub

DefaultThresholds ==
    /\ rf_sbp = RfSbpDefault
    /\ rf_o2 = RfO2Default
    /\ rf_rr_hi = RfRrHiDefault
    /\ rf_temp_hi = RfTempHiDefault
    /\ rf_gcs = RfGcsDefault

\* The level of the decision for the probabilities q, all else as in the state.
LevelFor(q) ==
    IF app = "app" THEN triage_decision_icu(q["icu"], vitals)[1]
    ELSE triage_decision(q, vitals)[1]

\* The outcome names of the running deployment.
Outcomes == IF app = "app" THEN {"icu"} ELSE Targets

\* q with outcome o set to x; a name missing from q counts as 0 before.
Raised(q, o, x) == [t \in DOMAIN q \cup {o} |-> IF t = o THEN x ELSE q[t]]

-----------------------------------------------------------------------------
(* C1.  With red-flag mode on and at least one flag returned by            *)
(* vital_red_flags, the decision is level 1 whatever the probabilities     *)
(* are; for the vitals of scenario A under the default thresholds the      *)
(* rationale contains "SBP < 90".                                          *)
C1_RedFlagForcesLevel1 ==
    (Decided /\ apply_redflags /\ vital_red_flags(vitals) # <<>>) =>
        /\ level = 1
        /\ (vitals = ScenarioAVitals /\ DefaultThresholds) =>
               (Len(why) >= 1 /\ Contains(why[1], "SBP < 90"))

\* A flagged request with every probability 0 was decided.
C1_Witness ==
    /\ Decided
    /\ apply_redflags
    /\ vitals = ScenarioAVitals
    /\ app = "app2"
    /\ preds = Flat(9, 0)
    /\ level = 1

(* C2.  With no red flag applying, a critical value at or above cutoff 1   *)
(* gives level 1, and a critical value at or above cutoff 2 and below      *)
(* cutoff 1 gives level 2, whatever the urgent and minor values are.       *)
C2_CriticalCutoffs ==
    (Decided /\ NoRedFlag) =>
        /\ (CriticalValue >= lvl1_cut) => level = 1
        /\ (lvl2_cut <= CriticalValue /\ CriticalValue < lvl1_cut) => level = 2

\* Level 2 was decided with red-flag mode on and no flag, the urgent value
\* above the critical value.
C2_Witness ==
    /\ Decided
    /\ app = "app2"
    /\ apply_redflags
    /\ level = 2
    /\ urgent(preds) > critical(preds)
    /\ urgent(preds) >= lvl3_cut

(* C3.  In app2.py, with no red flag applying and the critical value below *)
(* cutoffs 1 and 2, the level is 3 exactly when the maximum of the urgent  *)
(* bucket is at or above cutoff 3, whatever the minor bucket is.           *)
C3_UrgentCutoff ==
    (Decided /\ app = "app2" /\ NoRedFlag
        /\ critical(preds) < lvl1_cut /\ critical(preds) < lvl2_cut) =>
        (level = 3 <=> urgent(preds) >= lvl3_cut)

\* Level 3 was decided while the minor bucket reached its own cutoff too.
C3_Witness ==
    /\ Decided
    /\ app = "app2"
    /\ NoRedFlag
    /\ level = 3
    /\ minor(preds) >= lvl4_cut

(* C4.  In app2.py, with no red flag applying, the critical value below    *)
(* cutoffs 1 and 2 and the urgent value below cutoff 3, the level is 4     *)
(* exactly when the maximum of the minor bucket is at or above cutoff 4.   *)
C4_MinorCutoff ==
    (Decided /\ app = "app2" /\ NoRedFlag
        /\ critical(preds) < lvl1_cut /\ critical(preds) < lvl2_cut
        /\ urgent(preds) < lvl3_cut) =>
        (level = 4 <=> minor(preds) >= lvl4_cut)

\* Level 4 was decided with the minor bucket exactly at its cutoff.
C4_Witness ==
    /\ Decided
    /\ app = "app2"
    /\ NoRedFlag
    /\ level = 4
    /\ minor(preds) = lvl4_cut

\* Every bucket value is below its cutoff.
AllBelowCutoffs ==
    IF app = "app"
    THEN /\ preds["icu"] < lvl1_cut
         /\ preds["icu"] < lvl2_cut
         /\ preds["icu"] < lvl3_cut
         /\ preds["icu"] < lvl4_cut
    ELSE /\ critical(preds) < lvl1_cut
         /\ critical(preds) < lvl2_cut
         /\ urgent(preds) < lvl3_cut
         /\ minor(preds) < lvl4_cut

\* Every outcome probability is 0.
AllZero == \A t \in Outcomes : t \in DOMAIN preds /\ preds[t] = 0

(* C5 as stated.  With no red flag applying and every bucket value below   *)
(* its cutoff the decision is level 5 with the rationale "all risks below  *)
(* cutoffs" (read as the English message of the code, "All risks below     *)
(* cutoffs").                                                              *)
C5_AsStated ==
    (Decided /\ NoRedFlag /\ AllBelowCutoffs) =>
        (level = 5 /\ why = <<"All risks below cutoffs">>)

(* C5 as amended.  With no red flag applying and every bucket value below  *)
(* its cutoff the decision is level 5 and its rationale is the one entry   *)
(* "All risks below cutoffs" when the language is English and the Thai     *)
(* translation of it when the language is Thai; all probabilities 0 with   *)
(* red-flag mode off gives level 5 under every cutoff configuration.       *)
C5_BelowCutoffs ==
    /\ (Decided /\ NoRedFlag /\ AllBelowCutoffs) =>
           /\ level = 5
           /\ why = <<IF LANG_KEY = "en" THEN "All risks below cutoffs"
                      ELSE "[th] All risks below cutoffs">>
    /\ (Decided /\ ~apply_redflags /\ AllZero) => level = 5

\* Level 5 was decided in Thai for probabilities that are all 0, mode off.
C5_Witness ==
    /\ Decided
    /\ app = "app2"
    /\ ~apply_redflags
    /\ AllZero
    /\ LANG_KEY = "th"
    /\ level = 5

(* C6.  Monotonicity: with the cutoffs, the vitals, the red-flag mode and  *)
(* the other probabilities as they are, raising one outcome probability    *)
(* never gives a numerically higher level than the one decided, under      *)
(* every cutoff configuration, ordered or not.                             *)
C6_Monotone ==
    Decided =>
        \A o \in Outcomes : \A x \in ProbVals :
            (x >= Get(preds, o, 0)) => LevelFor(Raised(preds, o, x)) <= level

\* A decision under cutoffs that are not in descending order, which raising
\* one probability makes strictly more urgent.
C6_Witness ==
    /\ Decided
    /\ app = "app2"
    /\ lvl1_cut < lvl2_cut
    /\ lvl3_cut < lvl4_cut
    /\ \E o \in Outcomes : \E x \in ProbVals :
           /\ x > Get(preds, o, 0)
           /\ LevelFor(Raised(preds, o, x)) < level

RuleNamed(entry) ==
    IF apply_redflags /\ vital_red_flags(vitals) # <<>>
    THEN \A i \in 1..Len(vital_red_flags(vitals)) :
             Contains(entry, vital_red_flags(vitals)[i])
    ELSE IF level = 5
    THEN Contains(entry, "below cutoffs")
    ELSE LET value == IF app = "app" THEN preds["icu"]
                      ELSE <<critical(preds), critical(preds), urgent(preds), minor(preds)>>[level]
             cut == <<lvl1_cut, lvl2_cut, lvl3_cut, lvl4_cut>>[level]
         IN  /\ value >= cut
             /\ Contains(entry, Fmt1(value) \o "% >= L" \o ToString(level)
                                \o " " \o ToString(cut \div 10) \o "%")

(* C8.  Every decision carries a rationale of at least one entry, and the  *)
(* entry names the rule that fired: every triggered flag, or the bucket    *)
(* value and the cutoff it reached, or the below-cutoffs message.          *)
C8_RationaleNamesRule ==
    Decided => (Len(why) >= 1 /\ level \in 1..5 /\ RuleNamed(why[1]))

\* A decision by at least two triggered flags, all named in its one entry.
C8_Witness ==
    /\ Decided
    /\ apply_redflags
    /\ Len(vital_red_flags(vitals)) >= 2
    /\ Len(why) = 1

(* C9.  The level of every decision is an integer from 1 to 5, also for a  *)
(* probability map that lacks outcome names.                               *)
C9_LevelRange == Decided => level \in 1..5

\* A decision from a probability map without any name of the urgent and the
\* minor bucket.
C9_Witness ==
    /\ Decided
    /\ app = "app2"
    /\ DOMAIN preds = {"icu_admission", "or", "7_day_death"}
    /\ level = 5

(* C10.  A request whose vitals trigger a red flag, with red-flag mode on, *)
(* ends with level 1 even when the predictor is unavailable: no such       *)
(* request ends in an error without a level.                               *)
C10_RedFlagNeedsNoPredictor ==
    (pc \in {"failed", "crashed"} /\ apply_redflags /\ vital_red_flags(vitals) # <<>>) =>
        level = 1

-----------------------------------------------------------------------------
(* write_log of two sessions on the one file logs/predictions.csv.  Each   *)
(* session's script runs in a thread of its own; the call evaluates        *)
(* os.path.exists(path) for the header argument and then appends.          *)

\* Number of write_log calls of each session.
MaxWrites == 2

\* The levels of the logged decisions.
LogLevels == {1, 3, 5}

HeaderLine == [kind |-> "header", session |-> "", level |-> 0]

RowLine(s, l) == [kind |-> "row", session |-> s, level |-> l]

\* header = not os.path.exists(path), the argument of to_csv.
LogExists(s) ==
    /\ wl[s].pc = "idle"
    /\ wl[s].n < MaxWrites
    /\ wl' = [wl EXCEPT ![s].pc = "checked", ![s].header = (file = <<>>)]
    /\ UNCHANGED <<flow, other, file, form, raw, tpc, direct>>

\* to_csv(path, mode='a', header=header): the header line when asked for,
\* then the row.
LogAppend(s, l) ==
    /\ wl[s].pc = "checked"
    /\ file' = file \o (IF wl[s].header THEN <<HeaderLine>> ELSE <<>>) \o <<RowLine(s, l)>>
    /\ wl' = [wl EXCEPT ![s].pc = "idle", ![s].n = @ + 1]
    /\ UNCHANGED <<flow, other, form, raw, tpc, direct>>

NextLog ==
    \/ \E s \in Sessions : LogExists(s)
    \/ \E s \in Sessions : \E l \in LogLevels : LogAppend(s, l)

SpecLog == Init /\ [][NextLog]_vars

(* C13.  After any sequence of write_log calls, interleaved calls of two   *)
(* sessions included, the file has exactly one header line, and it is the  *)
(* first line.                                                             *)
C13_OneHeader ==
    file # <<>> =>
        /\ file[1] = HeaderLine
        /\ Cardinality({i \in 1..Len(file) : file[i] = HeaderLine}) = 1

-----------------------------------------------------------------------------
(* Two sessions.  Streamlit runs the script of every session in a module   *)
(* namespace of its own, so the names lvl1_cut .. rf_gcs, apply_redflags   *)
(* that vital_red_flags and triage_decision read are those the run of the  *)
(* same session assigned from the session's widgets.  The request flow     *)
(* above is one session; the other session is its sidebar.                 *)

\* The sidebar settings the other session moves between.
OtherConfigs ==
    {DefaultSidebar,
     [DefaultSidebar EXCEPT !.lvl1_cut = Lvl4CutDefault, !.lvl2_cut = CutMin],
     [DefaultSidebar EXCEPT !.apply_redflags = FALSE, !.rf_sbp = RfSbpMin],
     [DefaultSidebar EXCEPT !.rf_sbp = RfSbpMax, !.LANG_KEY = "th"]}

\* Mutant of OtherInteract: the cutoffs, the thresholds and the mode are
\* globals of the process, written by whichever run assigned them last.
OtherInteract_shared(side) ==
    /\ side # other
    /\ other' = side
    /\ LANG_KEY' = LANG_KEY
    /\ lvl1_cut' = side.lvl1_cut
    /\ lvl2_cut' = side.lvl2_cut
    /\ lvl3_cut' = side.lvl3_cut
    /\ lvl4_cut' = side.lvl4_cut
    /\ apply_redflags' = side.apply_redflags
    /\ rf_sbp' = side.rf_sbp
    /\ rf_o2' = side.rf_o2
    /\ rf_rr_hi' = side.rf_rr_hi
    /\ rf_temp_hi' = side.rf_temp_hi
    /\ rf_gcs' = side.rf_gcs
    /\ log_predictions' = log_predictions
    /\ UNCHANGED <<app, pc, vitals, preds, level, css, why, error, first,
                   zone, actions, logged, calls, mine, file, wl, form, raw, tpc, direct>>

\* The user of the other session changes its sidebar; its run assigns the
\* names of its own namespace.  This can happen at any point of a run of
\* this session.
OtherInteract(side) ==
    /\ side # other
    /\ other' = side
    /\ UNCHANGED <<flow, file, wl, form, raw, tpc, direct>>

NextSessions ==
    \/ Rerun
    \/ \E in \in UiSweep : Interact(in)
    \/ Submit
    \/ EmbedText
    \/ \E out \in PredictorOutputs : PredictOk(out)
    \/ \E call \in PredictCalls : PredictFail(call)
    \/ Decide
    \/ WriteLog
    \/ \E side \in OtherConfigs : OtherInteract(side)

SpecSessions == Init /\ [][NextSessions]_vars

-----------------------------------------------------------------------------
(* Building the input row from the categorical fields of the form.  The    *)
(* Thai labels are written as their English counterparts tagged "[th] ";   *)
(* the model tokens of the gender are "[th] M" and "[th] F".               *)

\* mapping of _map_gender_to_model_token (app2.py).
GenderMapping ==
    [g \in {"[th] Male", "[th] Female", "[th] M", "[th] F", "Male", "Female", "M", "F"} |->
        IF g \in {"[th] Male", "[th] M", "Male", "M"} THEN "[th] M" ELSE "[th] F"]

\* mapping of _map_case_to_model_token (app2.py).
CaseMapping ==
    [c \in {"T", "N", "Trauma", "Non-trauma", "T ([th] Trauma)", "N ([th] Non-trauma)"} |->
        IF c \in {"T", "Trauma", "T ([th] Trauma)"} THEN "T" ELSE "N"]

\* The dict literal of arrival_raw in app2.py.
ArrivalMapping ==
    [a \in {"Walk-in", "EMS", "Referral", "[th] Walk-in", "[th] EMS", "[th] Referral"} |->
        IF a \in {"Walk-in", "[th] Walk-in"} THEN "Walkin"
        ELSE IF a \in {"EMS", "[th] EMS"} THEN "EMS" ELSE "Referral"]

\* The dict literals of arrival_raw and case_raw in app.py, whose Thai label
\* of EMS is "EMS".
ArrivalMappingIcu ==
    [a \in {"Walk-in", "EMS", "Referral", "[th] Walk-in", "[th] Referral"} |->
        IF a \in {"Walk-in", "[th] Walk-in"} THEN "Walkin"
        ELSE IF a = "EMS" THEN "EMS" ELSE "Referral"]

CaseMappingIcu ==
    [c \in {"Trauma", "Non-trauma", "[th] Trauma", "[th] Non-trauma"} |->
        IF c \in {"Trauma", "[th] Trauma"} THEN "T" ELSE "N"]

\* mapping.get(g, g)
_map_gender_to_model_token(g) == Get(GenderMapping, g, g)

\* mapping.get(c, c)
_map_case_to_model_token(c) == Get(CaseMapping, c, c)

\* gender_raw of app.py: the label itself in Thai, else a test for 'F'.
gender_raw_icu(g) == IF LANG_KEY = "th" THEN g ELSE IF g = "F" THEN "[th] F" ELSE "[th] M"

\* The vocabulary of the model tokens.
SexTokens == {"[th] M", "[th] F"}
ArrivalTokens == {"Walkin", "EMS", "Referral"}
CaseTokens == {"T", "N"}

\* The options of the three selectboxes of the running script in language l.
GenderOptions(l) ==
    IF app = "app" THEN (IF l = "en" THEN {"F", "M"} ELSE {"[th] F", "[th] M"})
    ELSE (IF l = "en" THEN {"Male", "Female"} ELSE {"[th] Male", "[th] Female"})

ArrivalOptions(l) ==
    IF l = "en" THEN {"Walk-in", "EMS", "Referral"}
    ELSE IF app = "app" THEN {"[th] Walk-in", "EMS", "[th] Referral"}
    ELSE {"[th] Walk-in", "[th] EMS", "[th] Referral"}

CaseOptions(l) ==
    IF l = "en" THEN {"Trauma", "Non-trauma"}
    ELSE IF app = "app" THEN {"[th] Trauma", "[th] Non-trauma"}
    ELSE {"T ([th] Trauma)", "N ([th] Non-trauma)"}

\* The values explored for the three fields in language l: every option of
\* the selectbox, and one value that is no option and no key of a mapping.
FormInputs(l) ==
    {[gender |-> g, arrival |-> a, case_type |-> c] :
        g \in GenderOptions(l) \cup {"Other"},
        a \in ArrivalOptions(l) \cup {"Helicopter"},
        c \in CaseOptions(l) \cup {"Unknown"}}

\* The run of a submission receives the three values and the language.
Fill(f, l) ==
    /\ tpc = "idle"
    /\ pc = "idle"
    /\ form' = f
    /\ LANG_KEY' = l
    /\ mine' = [mine EXCEPT !.LANG_KEY = l]
    /\ tpc' = "filled"
    /\ UNCHANGED <<app, lvl1_cut, lvl2_cut, lvl3_cut, lvl4_cut, apply_redflags,
                   rf_sbp, rf_o2, rf_rr_hi, rf_temp_hi, rf_gcs, log_predictions,
                   pc, vitals, preds, level, css, why, error, first,
                   zone, actions, logged, calls, other, file, wl, raw, direct>>

\* if submitted: the three raw tokens; a dict literal raises KeyError for a
\* label that is no key of it, outside the try.
BuildRow ==
    /\ tpc = "filled"
    /\ LET arrivals == IF app = "app" THEN ArrivalMappingIcu ELSE ArrivalMapping
           known == /\ form.arrival \in DOMAIN arrivals
                    /\ app = "app" => form.case_type \in DOMAIN CaseMappingIcu
       IN  IF known
           THEN /\ raw' = [sex |-> IF app = "app" THEN gender_raw_icu(form.gender)
                                   ELSE _map_gender_to_model_token(form.gender),
                           how_come_er |-> arrivals[form.arrival],
                           t_n |-> IF app = "app" THEN CaseMappingIcu[form.case_type]
                                   ELSE _map_case_to_model_token(form.case_type)]
                /\ tpc' = "built"
           ELSE /\ raw' = raw
                /\ tpc' = "crashed"
    /\ UNCHANGED <<flow, other, file, wl, form, direct>>

\* The row goes to the embedder and the predictor (embed_text and
\* predict_single).
CallOracles ==
    /\ tpc = "built"
    /\ tpc' = "called"
    /\ UNCHANGED <<flow, other, file, wl, form, raw, direct>>

\* The next run.
TokensRerun ==
    /\ tpc \in {"called", "crashed"}
    /\ tpc' = "idle"
    /\ raw' = <<>>
    /\ UNCHANGED <<flow, other, file, wl, form, direct>>

NextTokens ==
    \/ \E l \in {"en", "th"} : \E f \in FormInputs(l) : Fill(f, l)
    \/ BuildRow
    \/ CallOracles
    \/ TokensRerun

SpecTokens == Init /\ [][NextTokens]_vars

-----------------------------------------------------------------------------
(* Vocabulary of the properties about the request as a whole *)

\* The calls to the embedder and to the predictor, by the name the failure of
\* each is recorded under.
OracleCalls == {"transform", "embedder", "predict", "predict_proba"}

\* What the run showed for an exception: the except clause of the try shows
\* the "Prediction failed: " message with st.error; an exception outside the
\* try ends the run with the traceback.
Reported ==
    IF pc = "failed" THEN "prediction_failed"
    ELSE IF pc = "crashed" THEN "traceback"
    ELSE ""

(* C11.  When the embedder or the predictor raises during a request and no *)
(* red flag applies, the request ends in an error: no level, no zone, no   *)
(* action list and no log row exist for it, and no decision is computed    *)
(* from probabilities that were never returned.                            *)
C11_OracleFailureAborts ==
    (error \in OracleCalls /\ NoRedFlag) =>
        /\ pc \in {"failed", "crashed"}
        /\ preds = <<>>
        /\ level = 0
        /\ zone = <<>>
        /\ actions = <<>>
        /\ logged = <<>>

\* The predictor of app2.py raised after the embedder had answered, with
\* logging on and no red flag.
C11_Witness ==
    /\ app = "app2"
    /\ pc = "failed"
    /\ error = "predict"
    /\ NoRedFlag
    /\ log_predictions
    /\ calls.embedder = 1

(* C12.  A failure of write_log after the decision was computed leaves the *)
(* decision presented and is reported as a warning, not as a failed        *)
(* prediction.                                                             *)
C12_LogFailureIsWarning ==
    (error = "write_log") =>
        /\ level \in 1..5
        /\ zone = zone_for_level(level)
        /\ actions # <<>>
        /\ why # <<>>
        /\ Reported # "prediction_failed"

(* C16.  Within one submitted request the embedder is invoked at most once *)
(* and the predictor at most once; a request that failed ends its run, and *)
(* calls are made again only by the run of a new submission.               *)
C16_AtMostOnce ==
    /\ [](calls.embedder <= 1 /\ calls.predictor <= 1)
    /\ [][/\ (pc \in {"failed", "crashed"}) => (pc' = "idle" /\ calls' = NoCalls)
          /\ (calls' # calls /\ calls' # NoCalls) => pc \in {"submitted", "embedded"}]_vars

\* A request of app.py failed in the predictor after its one embedding.
C16_Witness ==
    /\ app = "app"
    /\ pc = "failed"
    /\ error = "predict_proba"
    /\ calls = [embedder |-> 1, predictor |-> 1]

(* C18.  The zone and action lookup is total on the levels 1 to 5: in both *)
(* languages every level has a zone name, a zone area and a non-empty      *)
(* action list, and what a decision shows is the entry of its level in the *)
(* display language.                                                       *)
C18_LookupTotal ==
    /\ \A l \in 1..5 :
          /\ Len(zone_for_level(l)) = 2
          /\ zone_for_level(l)[1] # ""
          /\ zone_for_level(l)[2] # ""
          /\ Len(Actions(l)) >= 1
    /\ Decided =>
          /\ level \in 1..5
          /\ zone = zone_for_level(level)
          /\ actions = Actions(level)
          /\ Len(actions) >= 1

\* A level-5 decision of app2.py shown in Thai.
C18_Witness ==
    /\ Decided
    /\ app = "app2"
    /\ LANG_KEY = "th"
    /\ level = 5
    /\ zone = <<"[th] White zone", "[th] Fast-track / clinic">>
    /\ Len(actions) = 2

(* C19.  With logging enabled a run that completes has appended exactly    *)
(* one row, which carries the session identifier, the fields of the input  *)
(* row, every outcome probability under its prefixed name and the level;   *)
(* a row is appended only once the decision exists; with logging disabled  *)
(* no row is appended.                                                     *)
C19_OneRowPerDecision ==
    /\ (pc = "done" /\ log_predictions) =>
          /\ Len(logged) = 1
          /\ logged[1]["session"] = session_id
          /\ \A k \in DOMAIN single_input : logged[1][k] = single_input[k]
          /\ \A t \in Outcomes : logged[1]["pred_" \o t] = preds[t]
          /\ logged[1]["triage_level"] = level
    /\ ~log_predictions => logged = <<>>
    /\ logged # <<>> => (pc = "done" /\ level \in 1..5)

\* A logged decision of app2.py with all nine probabilities in its row.
C19_Witness ==
    /\ app = "app2"
    /\ pc = "done"
    /\ log_predictions
    /\ Len(logged) = 1
    /\ logged[1]["pred_7_day_death"] = 1000
    /\ logged[1]["triage_level"] = 1

(* C20 as stated.  On the red-flag branch the rationale is the list of the *)
(* triggered flags itself: one entry per flag, in the evaluator's order.   *)
C20_AsStated ==
    (Decided /\ apply_redflags /\ vital_red_flags(vitals) # <<>>) =>
        why = vital_red_flags(vitals)

(* C20 as amended.  On the red-flag branch the rationale has exactly one   *)
(* entry: the red-flag prefix in the display language followed by the      *)
(* triggered flag strings in the evaluator's order, joined with ", ".      *)
C20_FlagsInOneEntry ==
    (Decided /\ apply_redflags /\ vital_red_flags(vitals) # <<>>) =>
        /\ Len(why) = 1
        /\ why[1] = (IF LANG_KEY = "en" THEN "Vital red-flags: "
                     ELSE "[th] Vital red-flags: ") \o Join(vital_red_flags(vitals))

\* A decision by all five flags.
C20_Witness ==
    /\ Decided
    /\ apply_redflags
    /\ Len(vital_red_flags(vitals)) = 5
    /\ why = <<"Vital red-flags: SBP < 90, SpO2 < 90%, RR > 30, Temp >= 39.5C, GCS <= 8">>

\* The level the decision of this session would have under the cutoffs of
\* the other session (app2.py, no red flag applying).
LevelUnderOther ==
    IF critical(preds) >= other.lvl1_cut THEN 1
    ELSE IF critical(preds) >= other.lvl2_cut THEN 2
    ELSE IF urgent(preds) >= other.lvl3_cut THEN 3
    ELSE IF minor(preds) >= other.lvl4_cut THEN 4
    ELSE 5

-----------------------------------------------------------------------------
(* vital_red_flags and triage_decision called directly.  The arguments are *)
(* the vitals, the probabilities and the sidebar values the two functions  *)
(* read as globals; a call is followed by at most one second call of the   *)
(* same function with varied arguments.                                    *)

\* The arguments of a call as the state holds them.
Args == [side |-> Side, vitals |-> vitals, preds |-> preds]

\* Nine probabilities whose three bucket maxima are all p.
LevelPreds(p) ==
    {Flat(Len(TARGETS), p),
     [t \in Targets |-> IF t \in {"or", "inject", "xray"} THEN p ELSE 0]}

\* dict(zip(TARGETS, flat)) for a model output of fewer than nine values.
ShortPreds == {Flat(n, b) : n \in 0..(Len(TARGETS) - 1), b \in {350, 1000}}

\* The probabilities the decision is called with under every cutoff
\* configuration, by the script that is called.
CutoffPreds ==
    [app |-> {[k \in {"icu"} |-> x] : x \in ProbVals},
     app2 |-> UNION {LevelPreds(x) : x \in ProbVals} \cup ShortPreds \cup {ScenarioCPreds}]

\* The probabilities the calls are made with under the default cutoffs.
DefaultPreds ==
    [app |-> {[k \in {"icu"} |-> x] : x \in {0, 550}}, app2 |-> RichPreds]

\* The probabilities of the calls that sweep the red-flag inputs.
FlagPreds ==
    [app |-> {[k \in {"icu"} |-> 0]}, app2 |-> {Flat(Len(TARGETS), 0)}]

\* The arguments of the first call, by the script that is called: every
\* cutoff configuration with CutoffPreds, the default configuration with
\* DefaultPreds, the sweeps of the red-flag inputs and of the toggles with
\* FlagPreds.
CallInputs ==
    [s \in {"app", "app2"} |->
        {[side |-> in.side, vitals |-> in.vitals, preds |-> q] :
            in \in {c \in CutoffSweep : c.side.apply_redflags}, q \in CutoffPreds[s]}
        \cup {[side |-> in.side, vitals |-> in.vitals, preds |-> q] :
            in \in {c \in UiSweep : c.vitals = NormalVitals}, q \in DefaultPreds[s]}
        \cup {[side |-> in.side, vitals |-> in.vitals, preds |-> q] :
            in \in FlagSweep \cup UiSweep, q \in FlagPreds[s]}]

\* The arguments of the second call: those of the first with the language
\* changed; a call with vitals other than the form's defaults is also repeated
\* with other cutoffs, other probabilities, another threshold, the red-flag
\* mode toggled and the default vitals.
Variations(a) ==
    {[a EXCEPT !.side.LANG_KEY = IF @ = "en" THEN "th" ELSE "en"]}
    \cup (IF a.vitals = NormalVitals THEN {}
          ELSE {[a EXCEPT !.side.lvl1_cut = Lvl1CutMax, !.side.lvl3_cut = CutMin],
                [a EXCEPT !.preds = [t \in DOMAIN @ |-> 1000]],
                [a EXCEPT !.side.rf_sbp = RfSbpMax],
                [a EXCEPT !.side.apply_redflags = ~@],
                [a EXCEPT !.vitals = NormalVitals]})

\* The arguments of a first call are set.
Arrange(a) ==
    /\ pc = "idle"
    /\ before = <<>>
    /\ ReadWidgets(a)
    /\ preds' = a.preds
    /\ pc' = "arranged"
    /\ UNCHANGED <<app, level, css, why, error, first, zone, actions, logged, calls,
                   other, file, wl, form, raw, tpc, direct>>

\* flags = vital_red_flags(vitals)
CallFlags ==
    /\ pc = "arranged"
    /\ before # <<>> => before.call = "flagged"
    /\ result' = vital_red_flags(vitals)
    /\ pc' = "flagged"
    /\ UNCHANGED <<app, sidebar, vitals, preds, level, css, why, error, first,
                   zone, actions, logged, calls, mine,
                   other, file, wl, form, raw, tpc, before>>

\* level, css, rationale = triage_decision(preds, vitals)
CallDecision ==
    /\ pc = "arranged"
    /\ before # <<>> => before.call = "decided"
    /\ level' = Decision[1]
    /\ css' = Decision[2]
    /\ why' = Decision[3]
    /\ pc' = "decided"
    /\ UNCHANGED <<app, sidebar, vitals, preds, error, first,
                   zone, actions, logged, calls, mine, aside>>

\* The arguments of the second call are set; what the first call returned
\* stays.
Vary(a) ==
    /\ pc \in {"flagged", "decided"}
    /\ before = <<>>
    /\ before' = [args |-> Args, call |-> pc]
    /\ ReadWidgets(a)
    /\ preds' = a.preds
    /\ pc' = "arranged"
    /\ UNCHANGED <<app, level, css, why, error, first, zone, actions, logged, calls,
                   other, file, wl, form, raw, tpc, result>>

\* The calls are over; the next ones start from the widgets' defaults.
Finish ==
    /\ pc \in {"flagged", "decided"}
    /\ ClearPane
    /\ ReadWidgets([side |-> DefaultSidebar, vitals |-> NormalVitals])
    /\ result' = <<>>
    /\ before' = <<>>
    /\ pc' = "idle"
    /\ UNCHANGED <<app, other, file, wl, form, raw, tpc>>

NextCalls ==
    \/ pc = "idle" /\ \E a \in CallInputs[app] : Arrange(a)
    \/ CallFlags
    \/ CallDecision
    \/ pc \in {"flagged", "decided"} /\ \E a \in Variations(Args) : Vary(a)
    \/ Finish

SpecCalls == Init /\ [][NextCalls]_vars

\* The second of two direct calls has just returned, in the primed state.
SecondReturn == pc = "arranged" /\ pc' # "arranged" /\ before # <<>>

\* The check a flag text comes from, in the order of the checks: 1 SBP,
\* 2 SpO2, 3 RR, 4 temperature, 5 GCS (0 for any other text).
FlagCheck(s) ==
    IF Contains(s, "SBP < ") THEN 1
    ELSE IF Contains(s, "SpO2 < ") THEN 2
    ELSE IF Contains(s, "RR > ") THEN 3
    ELSE IF Contains(s, "Temp >= ") THEN 4
    ELSE IF Contains(s, "GCS <= ") THEN 5
    ELSE 0

\* The returned list holds the flag of check k.
Flagged(k) == \E i \in 1..Len(result) : FlagCheck(result[i]) = k

(* C21.  The list vital_red_flags returns is in the fixed order SBP, SpO2, *)
(* RR, temperature, GCS: every entry is the text of one of the five        *)
(* checks, no check has two entries (so there are at most five), and of    *)
(* any two entries the one of the earlier check comes first.               *)
C21_FlagOrder ==
    pc = "flagged" =>
        /\ Len(result) <= 5
        /\ \A i \in 1..Len(result) : FlagCheck(result[i]) \in 1..5
        /\ \A i, j \in 1..Len(result) :
               i < j => FlagCheck(result[i]) < FlagCheck(result[j])

\* A call returned the SBP flag and the GCS flag, and nothing between them.
C21_Witness ==
    /\ pc = "flagged"
    /\ Len(result) = 2
    /\ FlagCheck(result[1]) = 1
    /\ FlagCheck(result[2]) = 5

\* The GCS total of the vitals.
GcsTotal == vitals.gcs_e + vitals.gcs_v + vitals.gcs_m

(* C22.  Boundaries of the red-flag checks: the temperature flag is        *)
(* returned exactly when temp >= temp_high and the GCS flag exactly when   *)
(* the sum of the three sub-scores is <= gcs_total_low, so a value equal   *)
(* to its threshold triggers them; the SBP flag exactly when sbp <         *)
(* sbp_low, the SpO2 flag exactly when spo2 < spo2_low and the RR flag     *)
(* exactly when rr > rr_high, so a value equal to its threshold does not.  *)
C22_Boundaries ==
    pc = "flagged" =>
        /\ Flagged(1) <=> vitals.sbp < rf_sbp
        /\ Flagged(2) <=> vitals.o2sat < rf_o2
        /\ Flagged(3) <=> vitals.rr > rf_rr_hi
        /\ Flagged(4) <=> vitals.temp >= rf_temp_hi
        /\ Flagged(5) <=> GcsTotal <= rf_gcs
        /\ vitals.temp = rf_temp_hi => Flagged(4)
        /\ GcsTotal = rf_gcs => Flagged(5)
        /\ vitals.sbp = rf_sbp => ~Flagged(1)
        /\ vitals.o2sat = rf_o2 => ~Flagged(2)
        /\ vitals.rr = rf_rr_hi => ~Flagged(3)

\* A call with the GCS total exactly at its threshold returned the GCS flag
\* alone.
C22_Witness ==
    /\ pc = "flagged"
    /\ GcsTotal = rf_gcs
    /\ vitals.gcs_e # vitals.gcs_v
    /\ Len(result) = 1
    /\ Flagged(5)

\* The five thresholds of a sidebar record.
Thresholds(side) == <<side.rf_sbp, side.rf_o2, side.rf_rr_hi, side.rf_temp_hi, side.rf_gcs>>

(* C26.  vital_red_flags depends on the vitals and the five thresholds     *)
(* only: a second call with the vitals and the thresholds of the first     *)
(* returns the list the first returned, whatever the probabilities, the    *)
(* cutoffs, the red-flag mode and the language of the two calls are, and a *)
(* call changes nothing but the list it returns.                           *)
C26_FlagsDependOnVitalsOnly ==
    [][/\ (SecondReturn /\ pc' = "flagged"
              /\ before.args.vitals = vitals
              /\ Thresholds(before.args.side) = Thresholds(Side)) => result' = result
       /\ (pc = "arranged" /\ pc' = "flagged") =>
              UNCHANGED <<app, sidebar, vitals, preds, level, css, why, error, first,
                          zone, actions, logged, calls, mine,
                          other, file, wl, form, raw, tpc, before>>]_vars

\* A second call in the other language, with the same vitals and
\* thresholds, returned a list of flags.
C26_Witness ==
    /\ pc = "flagged"
    /\ before # <<>>
    /\ before.args.side.LANG_KEY # LANG_KEY
    /\ before.args.vitals = vitals
    /\ Len(result) >= 2

\* The outcome names of the three buckets of app2.py.
Buckets ==
    [critical |-> {"7_day_death", "icu_admission", "et", "or"},
     urgent |-> {"admission", "inject", "consult"},
     minor |-> {"lab", "xray"}]

\* The comparison of branch k of app2.py matches: its bucket value has
\* reached cutoff k.
Matches(k) ==
    <<critical(preds) >= lvl1_cut, critical(preds) >= lvl2_cut,
      urgent(preds) >= lvl3_cut, minor(preds) >= lvl4_cut>>[k]

\* The cutoffs of the specification's scenario C.
ScenarioCCutoffs ==
    lvl1_cut = 500 /\ lvl2_cut = 300 /\ lvl3_cut = 400

(* C23.  Priority is by the order of the checks, not by magnitude: with no *)
(* red flag applying, a critical value at or above cutoff 2 gives level 1  *)
(* or 2 even when the urgent or the minor value is larger (scenario C:     *)
(* critical 0.35, urgent 0.45, cutoffs 0.50, 0.30, 0.40 give level 2), and *)
(* the level is never beyond a branch whose comparison matches.            *)
C23_OrderNotMagnitude ==
    (pc = "decided" /\ app = "app2" /\ NoRedFlag) =>
        /\ critical(preds) >= lvl2_cut => level \in {1, 2}
        /\ (preds = ScenarioCPreds /\ ScenarioCCutoffs) => level = 2
        /\ \A k \in 1..4 : Matches(k) => level <= k

\* Scenario C was decided with red-flag mode off.
C23_Witness ==
    /\ pc = "decided"
    /\ app = "app2"
    /\ ~apply_redflags
    /\ preds = ScenarioCPreds
    /\ ScenarioCCutoffs
    /\ urgent(preds) > critical(preds)
    /\ level = 2

\* Some outcome of bucket b is at or above cut.
OneReaches(b, cut) == \E o \in Buckets[b] : Get(preds, o, 0) >= cut

(* C24.  Every bucket is aggregated by its maximum: with no red flag       *)
(* applying, one outcome of the critical bucket at or above cutoff 1 gives *)
(* level 1 however low the others are, one at or above cutoff 2 gives      *)
(* level 1 or 2, one urgent outcome at or above cutoff 3 makes the urgent  *)
(* check match (the level is 3 unless a critical check matched before),    *)
(* and one minor outcome at or above cutoff 4 makes the minor check match. *)
C24_BucketMaximum ==
    (pc = "decided" /\ app = "app2" /\ NoRedFlag) =>
        /\ OneReaches("critical", lvl1_cut) => level = 1
        /\ OneReaches("critical", lvl2_cut) => level \in {1, 2}
        /\ OneReaches("urgent", lvl3_cut) =>
               (level <= 3 /\ ((~Matches(1) /\ ~Matches(2)) => level = 3))
        /\ OneReaches("minor", lvl4_cut) =>
               (level <= 4 /\ ((\A k \in 1..3 : ~Matches(k)) => level = 4))

\* Level 1 was decided for one critical outcome at 0.55, all others at 0.
C24_Witness ==
    /\ pc = "decided"
    /\ app = "app2"
    /\ NoRedFlag
    /\ preds = Spiked(0, "et", 550)
    /\ lvl1_cut = 500
    /\ level = 1

\* The three bucket maxima of the probabilities are one value.
EqualMaxima == critical(preds) = urgent(preds) /\ urgent(preds) = minor(preds)

(* C25.  The two deployments decide alike: for every probability p, all    *)
(* vitals and every configuration, triage_decision of app.py called with p *)
(* returns the level triage_decision of app2.py returns for a probability  *)
(* map whose critical, urgent and minor maxima are all p.                  *)
C25_OneEngine ==
    pc = "decided" =>
        IF app = "app"
        THEN \A q \in LevelPreds(preds["icu"]) : triage_decision(q, vitals)[1] = level
        ELSE EqualMaxima => triage_decision_icu(critical(preds), vitals)[1] = level

\* app.py decided level 3 under cutoffs that are not in descending order, and
\* app2.py decides the same for maxima equal to the ICU risk.
C25_Witness ==
    /\ pc = "decided"
    /\ app = "app"
    /\ NoRedFlag
    /\ level = 3
    /\ lvl4_cut > lvl3_cut
    /\ \E q \in LevelPreds(preds["icu"]) :
           q # Flat(Len(TARGETS), preds["icu"]) /\ triage_decision(q, vitals)[1] = 3

(* C27.  In both deployments, when cutoff 1 is at or below cutoff 2 no     *)
(* decision is level 2, whatever the probabilities are: a critical value   *)
(* that reaches cutoff 2 has matched the level-1 branch.                   *)
C27_InvertedNoLevel2 ==
    (pc = "decided" /\ lvl1_cut <= lvl2_cut) =>
        /\ level # 2
        /\ (NoRedFlag /\ CriticalValue >= lvl2_cut) => level = 1

\* Level 1 was decided under cutoff 1 below cutoff 2 for a critical value at
\* or above cutoff 2, with no red flag applying.
C27_Witness ==
    /\ pc = "decided"
    /\ app = "app"
    /\ lvl1_cut < lvl2_cut
    /\ NoRedFlag
    /\ CriticalValue >= lvl2_cut
    /\ level = 1

\* The cutoffs are the defaults of the four sliders.
DefaultCutoffs ==
    /\ lvl1_cut = Lvl1CutDefault
    /\ lvl2_cut = Lvl2CutDefault
    /\ lvl3_cut = Lvl3CutDefault
    /\ lvl4_cut = Lvl4CutDefault

(* C28.  In app.py, where the one probability is compared with all four    *)
(* cutoffs, level 3 is decided only if cutoff 3 is below cutoffs 1 and 2,  *)
(* and level 4 only if cutoff 4 is below cutoffs 1, 2 and 3; under the     *)
(* default cutoffs (0.50, 0.30, 0.40, 0.25) no probability gives level 3.  *)
C28_IcuLevelsNeedOrder ==
    (pc = "decided" /\ app = "app") =>
        /\ level = 3 => (lvl3_cut < lvl1_cut /\ lvl3_cut < lvl2_cut)
        /\ level = 4 => (lvl4_cut < lvl1_cut /\ lvl4_cut < lvl2_cut /\ lvl4_cut < lvl3_cut)
        /\ DefaultCutoffs => level # 3

\* app.py decided under the default cutoffs for an ICU risk between cutoff 3
\* and cutoff 1, with no red flag applying.
C28_Witness ==
    /\ pc = "decided"
    /\ app = "app"
    /\ DefaultCutoffs
    /\ NoRedFlag
    /\ preds["icu"] >= lvl3_cut
    /\ preds["icu"] < lvl1_cut
    /\ level = 2

\* No outcome name of bucket b is a key of the probabilities.
Lacks(b) == Buckets[b] \cap DOMAIN preds = {}

\* The probabilities with 0 written for every absent outcome name.
ZeroFilled == [t \in Targets |-> IF t \in DOMAIN preds THEN preds[t] ELSE 0]

(* C29.  triage_decision treats an outcome name that is no key of the      *)
(* probabilities as probability 0: the call returns without an error what  *)
(* it returns for the map with 0 written for the absent names, a bucket    *)
(* none of whose names is a key has the value 0, and (every cutoff being   *)
(* positive) the check of such a bucket does not match.                    *)
C29_MissingIsZero ==
    (pc = "decided" /\ app = "app2") =>
        /\ error = ""
        /\ <<level, css, why>> = triage_decision(ZeroFilled, vitals)
        /\ Lacks("critical") =>
               (critical(preds) = 0 /\ ~Matches(1) /\ ~Matches(2)
                   /\ (NoRedFlag => level \notin {1, 2}))
        /\ Lacks("urgent") => (urgent(preds) = 0 /\ ~Matches(3) /\ level # 3)
        /\ Lacks("minor") => (minor(preds) = 0 /\ ~Matches(4) /\ level # 4)

\* A map without the names of the minor bucket, every value it holds at or
\* above cutoff 4, was decided level 5.
C29_Witness ==
    /\ pc = "decided"
    /\ app = "app2"
    /\ Lacks("minor")
    /\ ~Lacks("urgent")
    /\ \A t \in DOMAIN preds : preds[t] >= lvl4_cut
    /\ level = 5

\* A rationale entry without the mark of the Thai text.
Untagged(s) ==
    IF Len(s) >= 5 /\ SubSeq(s, 1, 5) = "[th] " THEN SubSeq(s, 6, Len(s)) ELSE s

\* Two rationales that differ in their language text only.
SameButLanguage(r1, r2) ==
    /\ Len(r1) = Len(r2)
    /\ \A i \in 1..Len(r1) : Untagged(r1[i]) = Untagged(r2[i])

\* The arguments of the second call are those of the first but for the
\* language.
OnlyLanguageChanged ==
    /\ before.args.side.LANG_KEY # LANG_KEY
    /\ before.args = [Args EXCEPT !.side.LANG_KEY = before.args.side.LANG_KEY]

(* C30.  The decision does not depend on the display language: a second    *)
(* call of triage_decision whose arguments and configuration differ from   *)
(* those of the first in LANG_KEY only returns the same level and the same *)
(* CSS class, and a rationale that differs in its language text only.      *)
C30_LanguageIndependent ==
    [][(SecondReturn /\ pc' = "decided" /\ OnlyLanguageChanged) =>
           /\ level' = level
           /\ css' = css
           /\ SameButLanguage(why', why)]_vars

\* The second call, in Thai after English, returned level 2 with a Thai
\* rationale.
C30_Witness ==
    /\ pc = "decided"
    /\ before # <<>>
    /\ before.call = "decided"
    /\ OnlyLanguageChanged
    /\ LANG_KEY = "th"
    /\ level = 2
    /\ Contains(why[1], "[th] Critical risk ")

====
